---- MODULE Spec2Model ----
(***************************************************************************)
(* Model of the InsightEngine synthetic data generators                    *)
(* (src/tools/InsightEngine.DataGenerator): the orchestrator script         *)
(* generate_all.py and the ten generate_<domain>.py row generators.        *)
(*                                                                         *)
(* Conventions.                                                            *)
(*  - A decimal number is an integer count of thousandths ("mills"):       *)
(*    1234.567 is 1234567.  round(x, 2) is Round2, which yields a multiple *)
(*    of 10 mills.  Binary floating-point representation error (relative   *)
(*    2^-53) lies far below this resolution and is not modelled.           *)
(*  - A row (a Python dict) is a sequence of <<key, value>> pairs in       *)
(*    insertion order.  None is <<>> and a present optional value v is     *)
(*    <<v>>.  Strings produced by the Faker provider are the opaque Text.  *)
(*  - A random draw is a choice (\E) from a small sample set of the        *)
(*    distribution's support.                                              *)
(*  - Non-ASCII letters of the source's string literals are written        *)
(*    without their accents ("Saida" for 'Saída').                         *)
(***************************************************************************)
EXTENDS Integers, Sequences, FiniteSets, TLC

VARIABLES
    installed,        \* environment: the third-party libraries that can be imported
    samples_dir,      \* environment: the directory ../../samples/ exists
    files,            \* the CSV files under ../../samples/, by file name
    script,           \* the entry point: "generate_all" or the generator called directly
    arg,              \* the num_rows argument of a direct call
    pc,               \* position of the running code
    step,             \* generate_all.main: 1-based position in the call sequence
    gen,              \* the generator whose body is executing ("none" outside)
    num_rows,         \* the running generator's num_rows parameter
    i,                \* the running generator's loop variable
    data,             \* the running generator's list of rows
    current_balance,  \* generate_cashflow_data's running balance
    exc,              \* the exception in flight ("none" when there is none)
    console,          \* the messages printed so far
    exit_status,      \* the process exit status (-1 while running)
    calls,            \* the generators invoked so far, in call order
    writes,           \* the to_csv writes completed so far, in order
    id_gen,           \* identifier formatting: the domain whose identifiers are built
    ids               \* identifier formatting: 1-based row index -> identifier built

vars == <<installed, samples_dir, files, script, arg, pc, step, gen, num_rows,
          i, data, current_balance, exc, console, exit_status, calls, writes,
          id_gen, ids>>

-----------------------------------------------------------------------------
(* Bounds of the model *)

\* Rows written by a default call: the stand-in for num_rows=5000.
DefaultNumRows == 2

\* Rows (from the first) whose draws range over the whole sample sets; the
\* later rows of a run take each sample set's typical draw.
VariedRows == 1

\* The num_rows arguments of a direct call of a generator.
NumRowsArgs == {-1, 0, 1, 2, 3}

\* The row count of the end-to-end scenario (e-commerce domain).
ScenarioRows == {10}

-----------------------------------------------------------------------------
(* Python built-ins *)

Text == "text"
None == <<>>
Some(v) == <<v>>

\* round(x, ndigits) on mills: the nearest multiple of 10^(3 - ndigits) mills,
\* ties to the even multiple; finer than a mill, the value is kept.
RoundN(x, ndigits) ==
    LET unit == IF ndigits = 1 THEN 100 ELSE IF ndigits = 2 THEN 10 ELSE 1
        q == x \div unit
        r == x % unit
    IN  IF 2 * r < unit THEN unit * q
        ELSE IF 2 * r > unit THEN unit * (q + 1)
        ELSE IF q % 2 = 0 THEN unit * q ELSE unit * (q + 1)

\* round(x, 2)
Round2(x) == RoundN(x, 2)

\* round(n / d, 2) in mills, for integers n and d > 0: the exact quotient
\* rounded to the nearest hundredth, ties to even.
Round2Ratio(n, d) ==
    LET whole == n \div d
        rest == n % d
        cents == 100 * whole + (100 * rest) \div d
        r == (100 * rest) % d
    IN  IF 2 * r < d THEN 10 * cents
        ELSE IF 2 * r > d THEN 10 * (cents + 1)
        ELSE IF cents % 2 = 0 THEN 10 * cents ELSE 10 * (cents + 1)

\* int(x) on mills: truncation toward zero, as a whole number.
IntOf(x) == IF x >= 0 THEN x \div 1000 ELSE -((-x) \div 1000)

Max(a, b) == IF a >= b THEN a ELSE b

\* The keys of a dict, in insertion order.
Keys(row) == [j \in 1..Len(row) |-> row[j][1]]

\* row[key]
Get(row, key) == row[CHOOSE j \in 1..Len(row) : row[j][1] = key][2]

\* The decimal digits of n >= 0, most significant first.
RECURSIVE Digits(_)
Digits(n) ==
    LET d == <<"0", "1", "2", "3", "4", "5", "6", "7", "8", "9">>[(n % 10) + 1]
    IN  IF n < 10 THEN <<d>> ELSE Append(Digits(n \div 10), d)

\* format(n, '0<w>d'): the digits of n, left-padded with zeros to at least w.
ZeroPadNoFill(n, w) == Digits(n)
ZeroPad(n, w) ==
    LET ds == Digits(n)
    IN  IF Len(ds) >= w THEN ds
        ELSE [j \in 1..(w - Len(ds)) |-> "0"] \o ds

\* f'{prefix}{n:0<w>d}'
MakeId(prefix, n, w) == prefix \o ZeroPad(n, w)

-----------------------------------------------------------------------------
(* The domains *)

GeneratorOrderSwapped ==
    <<"ecommerce", "hr", "controllership", "logistics", "marketing",
      "production", "inventory", "customers", "suppliers", "cashflow">>
\* generate_all.main calls the generators in this order.
GeneratorOrder ==
    <<"ecommerce", "controllership", "hr", "logistics", "marketing",
      "production", "inventory", "customers", "suppliers", "cashflow">>

Generators == {GeneratorOrder[k] : k \in 1..Len(GeneratorOrder)}

\* The libraries every generator module imports at its top.
Libraries == {"pandas", "numpy", "faker"}

\* The file each generator writes under ../../samples/.
FileName(g) ==
    CASE g = "ecommerce"      -> "vendas_ecommerce.csv"
      [] g = "controllership" -> "controladoria_contabilidade.csv"
      [] g = "hr"             -> "recursos_humanos.csv"
      [] g = "logistics"      -> "logistica_entregas.csv"
      [] g = "marketing"      -> "marketing_digital.csv"
      [] g = "production"     -> "producao_manufatura.csv"
      [] g = "inventory"      -> "inventario_produtos.csv"
      [] g = "customers"      -> "dados_clientes.csv"
      [] g = "suppliers"      -> "fornecedores_compras.csv"
      [] g = "cashflow"       -> "financas_fluxo_caixa.csv"

FileNames == {FileName(g) : g \in Generators}

\* The domains whose rows carry a sequential identifier, its prefix and the
\* width of its format specification.
IdGenerators ==
    {"ecommerce", "hr", "logistics", "marketing", "production", "customers",
     "suppliers"}

IdPrefix(g) ==
    CASE g = "ecommerce"  -> <<"P", "E", "D">>
      [] g = "hr"         -> <<"F", "U", "N">>
      [] g = "logistics"  -> <<"E", "N", "T">>
      [] g = "marketing"  -> <<"C", "A", "M", "P">>
      [] g = "production" -> <<"O", "R", "D">>
      [] g = "customers"  -> <<"C", "L", "I">>
      [] g = "suppliers"  -> <<"F", "O", "R">>

IdWidth(g) ==
    CASE g \in {"ecommerce", "logistics", "production", "customers"} -> 6
      [] g \in {"hr", "marketing", "suppliers"} -> 5

\* The key under which a row carries its sequential identifier.
IdKey(g) ==
    CASE g = "ecommerce"  -> "ID_Pedido"
      [] g = "hr"         -> "ID_Funcionario"
      [] g = "logistics"  -> "ID_Entrega"
      [] g = "marketing"  -> "ID_Campanha"
      [] g = "production" -> "ID_Ordem"
      [] g = "customers"  -> "ID_Cliente"
      [] g = "suppliers"  -> "ID_Fornecedor"

\* The identifier of the row with 1-based index n: f'{prefix}{i+1:0<w>d}'.
RowId(g, n) == MakeId(IdPrefix(g), n, IdWidth(g))

\* A file that does not exist, and one left by an earlier run.
Absent == [exists |-> FALSE, header |-> <<>>, nrows |-> 0]
Stale == [exists |-> TRUE, header |-> <<"stale">>, nrows |-> 1]

HeaderWithIndex(rows) == IF rows = <<>> THEN <<>> ELSE <<"">> \o Keys(rows[1])
\* pd.DataFrame(data): the columns are the keys of the rows in first-insertion
\* order (every row of a generator has the same keys); no rows, no columns.
Header(rows) == IF rows = <<>> THEN <<>> ELSE Keys(rows[1])

\* df.to_csv(path, index=False): a header line and one line per row.
CsvOf(rows) == [exists |-> TRUE, header |-> Header(rows), nrows |-> Len(rows)]

\* The console lines.
Line(m) == [msg |-> m, detail |-> "", rows |-> 0]
\* print(f"Arquivo '<file>' gerado com {num_rows} linhas.")
ReportedRows(n, rows) == n
GeneratedLine(g, n, rows) ==
    [msg |-> "Arquivo gerado", detail |-> FileName(g), rows |-> ReportedRows(n, rows)]

\* The sample set of a draw of the current iteration.
Pick(S, typical) == IF i < VariedRows THEN S ELSE {typical}

\* random.uniform(a, b) with the underlying random() = u / 10.
Uniform(a, b, u) == a + ((b - a) * u) \div 10

-----------------------------------------------------------------------------
(* generate_cashflow.py *)

InitialBalance == 100000000

\* np.random.lognormal draws (mills): 0.004, 2.505, 1234.567.
LogNormalDraws == {4, 2505, 1234567}

\* new_balance of one iteration.
NewBalanceAlwaysAdd(tipo, balance, value) == balance + value
NewBalance(tipo, balance, value) ==
    IF tipo = "Entrada" THEN balance + value ELSE balance - value

\* The balance the next iteration reads.
KeepBalance(balance, new_balance) == balance
CarryBalance(balance, new_balance) == new_balance

CashflowRow(tipo, value, balance, new_balance, opt) ==
    << <<"Data", Text>>,
       <<"Tipo", tipo>>,
       <<"Descricao", Text>>,
       <<"Valor", value>>,
       <<"Categoria", "Vendas">>,
       <<"Subcategoria", Text>>,
       <<"Conta", "Conta Corrente">>,
       <<"Saldo_Anterior", Round2(balance)>>,
       <<"Saldo_Apos", Round2(new_balance)>>,
       <<"Responsavel", Text>>,
       <<"Comprovante", Text>>,
       <<"Centro_Custo", Text>>,
       <<"Projeto", IF opt THEN Some(Text) ELSE None>>,
       <<"Moeda", "BRL">>,
       <<"Taxa_Cambio", IF opt THEN RoundN(Uniform(1000, 6000, 5), 4) ELSE 1000>>,
       <<"Previsao_Realizado", "Realizado">>,
       <<"Observacoes", IF opt THEN Some(Text) ELSE None>> >>

\* One iteration of the loop of generate_cashflow_data.
CashflowIteration ==
    /\ pc = "loop" /\ gen = "cashflow" /\ i < num_rows
    /\ \E tipo \in Pick({"Entrada", "Saida"}, "Saida"),
          raw \in Pick(LogNormalDraws, 1234567),
          opt \in Pick(BOOLEAN, FALSE) :
          LET value == Round2(raw)
              new_balance == NewBalance(tipo, current_balance, value)
          IN  /\ data' = Append(data, CashflowRow(tipo, value, current_balance,
                                                  new_balance, opt))
              /\ current_balance' = CarryBalance(current_balance, new_balance)
    /\ i' = i + 1
    /\ UNCHANGED <<id_gen, ids, installed, samples_dir, files, script, arg, pc, step, gen,
                   num_rows, exc, console, exit_status, calls, writes>>

-----------------------------------------------------------------------------
(* generate_ecommerce_sales.py *)

\* np.random.normal draws (mills) for quantity, unit price and freight.
QuantityDraws == {-1300, 3700}
PriceDraws == {-50255, 150128}
FreightDraws == {-3504, 15449}

\* The draws of the discount: <<random.random() > 0.7, u>> with u / 10 the
\* random() underlying random.uniform.
DiscountDraws == {<<FALSE, 0>>, <<TRUE, 5>>, <<TRUE, 10>>}

\* round(random.uniform(0, unit_price * 0.3), 2) if random.random() > 0.7 else 0
Discount(unit_price, d) ==
    IF d[1] THEN Round2(Uniform(0, (unit_price * 3) \div 10, d[2])) ELSE 0

\* total = (quantity * unit_price) + freight - discount
EcommerceTotalNoDiscount(quantity, unit_price, freight, discount) ==
    (quantity * unit_price) + freight
EcommerceTotal(quantity, unit_price, freight, discount) ==
    (quantity * unit_price) + freight - discount

EcommerceRow(n, quantity, unit_price, freight, discount, total, opt) ==
    << <<"ID_Pedido", RowId("ecommerce", n)>>,
       <<"Data_Pedido", Text>>,
       <<"Cliente_ID", MakeId(<<"C", "L", "I">>, 10000, 5)>>,
       <<"Produto", Text>>,
       <<"Quantidade", quantity>>,
       <<"Preco_Unitario", unit_price>>,
       <<"Total", Round2(total)>>,
       <<"Status", "Concluido">>,
       <<"Metodo_Pagamento", "PIX">>,
       <<"Frete", freight>>,
       <<"Desconto", discount>>,
       <<"Canal_Venda", "Site">>,
       <<"Cidade", Text>>,
       <<"Estado", Text>>,
       <<"Avaliacao", IF opt THEN Some(5) ELSE None>>,
       <<"Data_Entrega", IF opt THEN Some(Text) ELSE None>>,
       <<"Motivo_Cancelamento", IF opt THEN Some(Text) ELSE None>>,
       <<"Valor_Devolvido", IF opt THEN Round2(Uniform(0, total, 5)) ELSE 0>>,
       <<"Categoria_Produto", "Livros">>,
       <<"SKU", Text>> >>

\* One iteration of the loop of generate_ecommerce_sales.
EcommerceIteration ==
    /\ pc = "loop" /\ gen = "ecommerce" /\ i < num_rows
    /\ \E qraw \in Pick(QuantityDraws, 3700),
          praw \in Pick(PriceDraws, 150128),
          fraw \in Pick(FreightDraws, 15449),
          d \in Pick(DiscountDraws, <<FALSE, 0>>),
          opt \in Pick(BOOLEAN, FALSE) :
          LET quantity == Max(1, IntOf(qraw))
              unit_price == Round2(praw)
              freight == Round2(fraw)
              discount == Discount(unit_price, d)
              total == EcommerceTotal(quantity, unit_price, freight, discount)
          IN  data' = Append(data, EcommerceRow(i + 1, quantity, unit_price,
                                                freight, discount, total, opt))
    /\ i' = i + 1
    /\ UNCHANGED <<id_gen, ids, installed, samples_dir, files, script, arg, pc, step, gen,
                   num_rows, current_balance, exc, console, exit_status, calls,
                   writes>>

-----------------------------------------------------------------------------
(* generate_marketing.py *)

\* np.random.lognormal draws (mills) for investment and impressions:
\* 0.004 and 1234.567; 0.7, 1.0 and 250.9.
InvestmentDraws == {4, 1234567}
ImpressionDraws == {700, 1000, 250900}

\* np.random.beta draws in thousandths: 0, 0.5 and 1.
BetaDraws == {0, 500, 1000}

ScalePlusOne(count, beta) == IntOf(count * beta) + 1
\* int(count * beta)
Scale(count, beta) == IntOf(count * beta)

\* ctr = (clicks / impressions) * 100 if impressions > 0 else 0, rounded
Ctr(clicks, impressions) ==
    IF impressions > 0 THEN Round2Ratio(clicks * 100, impressions) ELSE 0

\* cpc = investment / clicks if clicks > 0 else 0, rounded
Cpc(investment, clicks) ==
    IF clicks > 0 THEN Round2Ratio(investment, clicks * 1000) ELSE 0

\* cpa = investment / conversions if conversions > 0 else 0, rounded
Cpa(investment, conversions) ==
    IF conversions > 0 THEN Round2Ratio(investment, conversions * 1000) ELSE 0

\* roi = (conversions * 50 - investment) / investment * 100: the division of
\* Python floats raises ZeroDivisionError when investment is 0.
RoiRaises(investment) == investment = 0
Roi(conversions, investment) ==
    Round2Ratio((conversions * 50 * 1000 - investment) * 100, investment)

MarketingRow(n, investment, impressions, clicks, conversions) ==
    << <<"ID_Campanha", RowId("marketing", n)>>,
       <<"Nome_Campanha", Text>>,
       <<"Data_Inicio", Text>>,
       <<"Data_Fim", Text>>,
       <<"Canal", "Google Ads">>,
       <<"Investimento", investment>>,
       <<"Impressoes", impressions>>,
       <<"Cliques", clicks>>,
       <<"Conversoes", conversions>>,
       <<"CTR", Ctr(clicks, impressions)>>,
       <<"CPC", Cpc(investment, clicks)>>,
       <<"CPA", Cpa(investment, conversions)>>,
       <<"ROI", Roi(conversions, investment)>>,
       <<"Publico_Alvo", Text>>,
       <<"Segmento", "25-34">>,
       <<"Status", "Ativa">>,
       <<"Responsavel", Text>>,
       <<"Objetivo", "Aumento Vendas">>,
       <<"Metricas_Adicionais", Text>> >>

\* One iteration of the loop of generate_marketing_data.
MarketingIteration ==
    /\ pc = "loop" /\ gen = "marketing" /\ i < num_rows
    /\ \E invraw \in InvestmentDraws,
          impraw \in Pick(ImpressionDraws, 250900),
          b1 \in Pick(BetaDraws, 500),
          b2 \in Pick(BetaDraws, 500) :
          LET investment == Round2(invraw)
              impressions == IntOf(impraw)
              clicks == Scale(impressions, b1)
              conversions == Scale(clicks, b2)
          IN  IF RoiRaises(investment)
              THEN /\ pc' = "raise"
                   /\ exc' = "ZeroDivisionError"
                   /\ UNCHANGED <<data, i>>
              ELSE /\ data' = Append(data, MarketingRow(i + 1, investment,
                                         impressions, clicks, conversions))
                   /\ i' = i + 1
                   /\ UNCHANGED <<pc, exc>>
    /\ UNCHANGED <<id_gen, ids, installed, samples_dir, files, script, arg, step, gen,
                   num_rows, current_balance, console, exit_status, calls,
                   writes>>

-----------------------------------------------------------------------------
(* generate_production.py *)

\* random.randint(100, 10000) draws.
PlannedDraws == {100, 333, 10000}

\* np.random.beta(8, 2) draws in thousandths.
YieldDraws == {0, 800, 1000}

\* efficiency = (produced_qty / planned_qty) * 100, rounded
Eficiencia(produced_qty, planned_qty) ==
    Round2Ratio(produced_qty * 100, planned_qty)

\* int(produced_qty * 0.05), the upper end of the defects' randint
MaxDefects(produced_qty) == (produced_qty * 5) \div 100

ProductionRow(n, planned_qty, produced_qty, defects, opt) ==
    << <<"ID_Ordem", RowId("production", n)>>,
       <<"Produto", Text>>,
       <<"Quantidade_Planejada", planned_qty>>,
       <<"Quantidade_Produzida", produced_qty>>,
       <<"Data_Inicio", Text>>,
       <<"Data_Fim", Text>>,
       <<"Maquina", "Maquina A">>,
       <<"Operador", Text>>,
       <<"Tempo_Producao_Min", 480>>,
       <<"Eficiencia", Eficiencia(produced_qty, planned_qty)>>,
       <<"Defeitos", defects>>,
       <<"Custo_Materia_Prima", Round2(1234567)>>,
       <<"Custo_Mao_Obra", Round2(2505)>>,
       <<"Status", "Concluida">>,
       <<"Linha_Producao", Text>>,
       <<"Turno", "Tarde">>,
       <<"Qualidade", "A">>,
       <<"Observacoes", IF opt THEN Some(Text) ELSE None>> >>

\* One iteration of the loop of generate_production_data.
ProductionIteration ==
    /\ pc = "loop" /\ gen = "production" /\ i < num_rows
    /\ \E planned_qty \in Pick(PlannedDraws, 333),
          b \in Pick(YieldDraws, 800),
          top \in Pick(BOOLEAN, FALSE),
          opt \in Pick(BOOLEAN, FALSE) :
          LET produced_qty == Scale(planned_qty, b)
              defects == IF top THEN MaxDefects(produced_qty) ELSE 0
          IN  data' = Append(data, ProductionRow(i + 1, planned_qty,
                                                 produced_qty, defects, opt))
    /\ i' = i + 1
    /\ UNCHANGED <<id_gen, ids, installed, samples_dir, files, script, arg, pc, step, gen,
                   num_rows, current_balance, exc, console, exit_status, calls,
                   writes>>

-----------------------------------------------------------------------------
(* generate_customers.py *)

\* random.randint(1, 50) draws.
OrderDraws == {1, 50}

TotalPurchasesAlways(last_purchase, raw) == Round2(raw)
\* total_purchases = round(np.random.lognormal(7, 1.5), 2) if last_purchase else 0
TotalPurchases(last_purchase, raw) == IF last_purchase THEN Round2(raw) ELSE 0

\* num_orders = random.randint(1, 50) if total_purchases > 0 else 0
NumOrders(total_purchases, orders) == IF total_purchases > 0 THEN orders ELSE 0

CustomersRow(n, last_purchase, total_purchases, num_orders) ==
    << <<"ID_Cliente", RowId("customers", n)>>,
       <<"Nome", Text>>,
       <<"CPF_CNPJ", Text>>,
       <<"Email", Text>>,
       <<"Telefone", Text>>,
       <<"Data_Cadastro", Text>>,
       <<"Data_Ultima_Compra", IF last_purchase THEN Some(Text) ELSE None>>,
       <<"Valor_Total_Compras", total_purchases>>,
       <<"Numero_Pedidos", num_orders>>,
       <<"Cidade", Text>>,
       <<"Estado", Text>>,
       <<"CEP", Text>>,
       <<"Idade", 18>>,
       <<"Genero", "Feminino">>,
       <<"Renda_Estimada", Round2(1234567)>>,
       <<"Score_Credito", 1000>>,
       <<"Status", "Ativo">>,
       <<"Preferencias", Text>>,
       <<"Canal_Aquisicao", "Site">> >>

\* One iteration of the loop of generate_customers_data.
CustomersIteration ==
    /\ pc = "loop" /\ gen = "customers" /\ i < num_rows
    /\ \E last_purchase \in Pick(BOOLEAN, TRUE),
          raw \in Pick(LogNormalDraws, 1234567),
          orders \in Pick(OrderDraws, 50) :
          LET total_purchases == TotalPurchases(last_purchase, raw)
              num_orders == NumOrders(total_purchases, orders)
          IN  data' = Append(data, CustomersRow(i + 1, last_purchase,
                                                total_purchases, num_orders))
    /\ i' = i + 1
    /\ UNCHANGED <<id_gen, ids, installed, samples_dir, files, script, arg, pc, step, gen,
                   num_rows, current_balance, exc, console, exit_status, calls,
                   writes>>

-----------------------------------------------------------------------------
(* generate_suppliers.py *)

SuppliersRow(n, last_purchase, total_purchases) ==
    << <<"ID_Fornecedor", RowId("suppliers", n)>>,
       <<"Nome_Empresa", Text>>,
       <<"CNPJ", Text>>,
       <<"Contato", Text>>,
       <<"Email", Text>>,
       <<"Telefone", Text>>,
       <<"Categoria", "Software">>,
       <<"Prazo_Pagamento", "30 dias">>,
       <<"Valor_Total_Compras", total_purchases>>,
       <<"Ultima_Compra", IF last_purchase THEN Some(Text) ELSE None>>,
       <<"Status", "Ativo">>,
       <<"Avaliacao", RoundN(Uniform(1000, 5000, 5), 1)>>,
       <<"Condicoes_Pagamento", "Boleto">>,
       <<"Desconto_Medio", Round2(Uniform(0, 15000, 5))>>,
       <<"Produtos_Fornecidos", Text>>,
       <<"Cidade", Text>>,
       <<"Estado", Text>>,
       <<"Data_Cadastro", Text>> >>

\* One iteration of the loop of generate_suppliers_data.
SuppliersIteration ==
    /\ pc = "loop" /\ gen = "suppliers" /\ i < num_rows
    /\ \E last_purchase \in Pick(BOOLEAN, TRUE),
          raw \in Pick(LogNormalDraws, 1234567) :
          data' = Append(data, SuppliersRow(i + 1, last_purchase,
                                            TotalPurchases(last_purchase, raw)))
    /\ i' = i + 1
    /\ UNCHANGED <<id_gen, ids, installed, samples_dir, files, script, arg, pc, step, gen,
                   num_rows, current_balance, exc, console, exit_status, calls,
                   writes>>

-----------------------------------------------------------------------------
(* generate_hr.py *)

HrRow(n, salary, dismissed, overtime) ==
    << <<"ID_Funcionario", RowId("hr", n)>>,
       <<"Nome", Text>>,
       <<"CPF", Text>>,
       <<"Data_Admissao", Text>>,
       <<"Cargo", Text>>,
       <<"Salario", salary>>,
       <<"Departamento", "TI">>,
       <<"Status", "Ativo">>,
       <<"Data_Demissao", IF dismissed THEN Some(Text) ELSE None>>,
       <<"Idade", 18>>,
       <<"Genero", "Feminino">>,
       <<"Escolaridade", "Superior">>,
       <<"Estado_Civil", "Casado">>,
       <<"Dependentes", 0>>,
       <<"Horas_Extras", IF overtime THEN 40 ELSE 0>>,
       <<"Faltas", 30>>,
       <<"Avaliacao", RoundN(Uniform(1000, 5000, 5), 1)>>,
       <<"Beneficios", Text>>,
       <<"Cidade", Text>>,
       <<"Estado", Text>> >>

\* One iteration of the loop of generate_hr_data.
HrIteration ==
    /\ pc = "loop" /\ gen = "hr" /\ i < num_rows
    /\ \E raw \in Pick(LogNormalDraws, 1234567),
          dismissed \in Pick(BOOLEAN, FALSE),
          overtime \in Pick(BOOLEAN, FALSE) :
          data' = Append(data, HrRow(i + 1, Round2(raw), dismissed, overtime))
    /\ i' = i + 1
    /\ UNCHANGED <<id_gen, ids, installed, samples_dir, files, script, arg, pc, step, gen,
                   num_rows, current_balance, exc, console, exit_status, calls,
                   writes>>

-----------------------------------------------------------------------------
(* generate_logistics.py *)

\* np.random.normal draws (mills) for weight, volume and freight value.
PhysicalDraws == {-1234, 5678}

LogisticsRow(n, delivered, raw, delayed) ==
    << <<"ID_Entrega", RowId("logistics", n)>>,
       <<"Pedido_ID", MakeId(<<"P", "E", "D">>, 10000, 6)>>,
       <<"Transportadora", "Correios">>,
       <<"Data_Saida", Text>>,
       <<"Data_Prevista", Text>>,
       <<"Data_Entrega", IF delivered THEN Some(Text) ELSE None>>,
       <<"Status", "Entregue">>,
       <<"Peso_Kg", Round2(raw)>>,
       <<"Volume_M3", RoundN(raw, 3)>>,
       <<"Valor_Frete", Round2(raw)>>,
       <<"Destinatario", Text>>,
       <<"Endereco", Text>>,
       <<"Cidade", Text>>,
       <<"Estado", Text>>,
       <<"CEP", Text>>,
       <<"Rastreamento", Text>>,
       <<"Motivo_Atraso", IF delayed THEN Some(Text) ELSE None>>,
       <<"Tentativas_Entrega", 1>>,
       <<"Responsavel", Text>> >>

\* One iteration of the loop of generate_logistics_data.
LogisticsIteration ==
    /\ pc = "loop" /\ gen = "logistics" /\ i < num_rows
    /\ \E delivered \in Pick(BOOLEAN, TRUE),
          raw \in Pick(PhysicalDraws, 5678),
          delayed \in Pick(BOOLEAN, FALSE) :
          data' = Append(data, LogisticsRow(i + 1, delivered, raw, delayed))
    /\ i' = i + 1
    /\ UNCHANGED <<id_gen, ids, installed, samples_dir, files, script, arg, pc, step, gen,
                   num_rows, current_balance, exc, console, exit_status, calls,
                   writes>>

-----------------------------------------------------------------------------
(* generate_inventory.py *)

\* random.randint(0, 10000) draws.
StockDraws == {0, 10000}

InventoryRow(unit_value, current_stock, expires) ==
    << <<"SKU", Text>>,
       <<"Nome_Produto", Text>>,
       <<"Categoria", "Alimentos">>,
       <<"Fornecedor", Text>>,
       <<"Quantidade_Estoque", current_stock>>,
       <<"Valor_Unitario", unit_value>>,
       <<"Valor_Total", Round2(current_stock * unit_value)>>,
       <<"Localizacao", Text>>,
       <<"Data_Ultima_Movimentacao", Text>>,
       <<"Tipo_Movimentacao", "Entrada">>,
       <<"Quantidade_Movimentada", 500>>,
       <<"Saldo_Apos_Movimentacao", current_stock>>,
       <<"Motivo", Text>>,
       <<"Responsavel", Text>>,
       <<"Data_Vencimento", IF expires THEN Some(Text) ELSE None>>,
       <<"Lote", Text>>,
       <<"Status", "Reservado">> >>

\* One iteration of the loop of generate_inventory_data.
InventoryIteration ==
    /\ pc = "loop" /\ gen = "inventory" /\ i < num_rows
    /\ \E raw \in Pick({4, 2505}, 2505),
          current_stock \in Pick(StockDraws, 10000),
          expires \in Pick(BOOLEAN, FALSE) :
          data' = Append(data, InventoryRow(Round2(raw), current_stock, expires))
    /\ i' = i + 1
    /\ UNCHANGED <<id_gen, ids, installed, samples_dir, files, script, arg, pc, step, gen,
                   num_rows, current_balance, exc, console, exit_status, calls,
                   writes>>

-----------------------------------------------------------------------------
(* generate_controllership.py *)

ControllershipRow(valor_base, approved, rate, observed) ==
    << <<"Data_Lancamento", Text>>,
       <<"Conta_Debito", Text>>,
       <<"Conta_Credito", Text>>,
       <<"Valor", Round2(valor_base)>>,
       <<"Historico", Text>>,
       <<"Tipo_Lancamento", "Receita">>,
       <<"Centro_Custo", "Vendas">>,
       <<"Filial", <<"F", "I", "L">> \o ZeroPad(50, 2)>>,
       <<"Documento", Text>>,
       <<"Fornecedor_Cliente", Text>>,
       <<"Moeda", "BRL">>,
       <<"Taxa_Cambio", IF rate THEN RoundN(Uniform(1000, 6000, 5), 4) ELSE 1000>>,
       <<"Competencia", Text>>,
       <<"Usuario", Text>>,
       <<"Aprovado", approved>>,
       <<"Observacoes", IF observed THEN Some(Text) ELSE None>>,
       <<"Categoria", Text>>,
       <<"Subcategoria", Text>> >>

\* One iteration of the loop of generate_controllership_data.
ControllershipIteration ==
    /\ pc = "loop" /\ gen = "controllership" /\ i < num_rows
    /\ \E raw \in Pick(LogNormalDraws, 1234567),
          approved \in Pick(BOOLEAN, TRUE),
          rate \in Pick(BOOLEAN, FALSE),
          observed \in Pick(BOOLEAN, FALSE) :
          data' = Append(data, ControllershipRow(raw, approved, rate, observed))
    /\ i' = i + 1
    /\ UNCHANGED <<id_gen, ids, installed, samples_dir, files, script, arg, pc, step, gen,
                   num_rows, current_balance, exc, console, exit_status, calls,
                   writes>>

-----------------------------------------------------------------------------
(* Control flow: generate_all.py and the generator functions *)

\* Entering generate_<g>(n): data = [] and, in the cashflow generator,
\* current_balance = 100000.0.
Enter(g, n) ==
    /\ gen' = g
    /\ num_rows' = n
    /\ i' = 0
    /\ data' = <<>>
    /\ current_balance' = IF g = "cashflow" THEN InitialBalance ELSE current_balance
    /\ calls' = Append(calls, g)
    /\ pc' = "loop"

\* generate_all.py, top of the module: the ten "from generate_... import ..."
\* lines.  Each generator module imports pandas, numpy and faker at its top, so
\* a missing library raises ImportError in the first of them, outside main()
\* and its try block: the interpreter prints the traceback and exits with 1.
ImportGenerators ==
    /\ pc = "import"
    /\ IF Libraries \subseteq installed
       THEN /\ pc' = "main"
            /\ UNCHANGED <<exc, console, exit_status>>
       ELSE /\ pc' = "exited"
            /\ exc' = "ImportError"
            /\ console' = Append(console, Line("Traceback (most recent call last)"))
            /\ exit_status' = 1
    /\ UNCHANGED <<id_gen, ids, installed, samples_dir, files, script, arg, step,
                   gen, num_rows, i, data, current_balance, calls, writes>>

\* main(): the two banner lines, then the try block.
MainStart ==
    /\ pc = "main"
    /\ console' = console \o <<Line("Iniciando geracao de dados CSV..."), Line("=====")>>
    /\ step' = 1
    /\ pc' = "try"
    /\ UNCHANGED <<id_gen, ids, installed, samples_dir, files, script, arg, gen,
                   num_rows, i, data, current_balance, exc, exit_status, calls,
                   writes>>

\* main(): the next call of the try block, with the default num_rows.
CallNextGenerator ==
    /\ pc = "try"
    /\ step <= Len(GeneratorOrder)
    /\ Enter(GeneratorOrder[step], DefaultNumRows)
    /\ UNCHANGED <<id_gen, ids, installed, samples_dir, files, script, arg, step,
                   exc, console, exit_status, writes>>

\* A caller's generate_<g>(arg).
CallGenerator ==
    /\ pc = "call"
    /\ Enter(script, arg)
    /\ UNCHANGED <<id_gen, ids, installed, samples_dir, files, script, arg, step,
                   exc, console, exit_status, writes>>

WriteCsvEarly ==
    /\ pc = "loop"
    /\ IF samples_dir
       THEN /\ files' = [files EXCEPT ![FileName(gen)] = CsvOf(data)]
            /\ writes' = Append(writes, gen)
            /\ console' = Append(console, GeneratedLine(gen, num_rows, data))
            /\ gen' = "none"
            /\ data' = <<>>
            /\ i' = 0
            /\ num_rows' = 0
            /\ IF script = "generate_all"
               THEN pc' = "try" /\ step' = step + 1
               ELSE pc' = "returned" /\ step' = step
            /\ exc' = exc
       ELSE /\ pc' = "raise"
            /\ exc' = "OSError"
            /\ UNCHANGED <<files, writes, console, gen, data, i, num_rows, step>>
    /\ UNCHANGED <<id_gen, ids, installed, samples_dir, script, arg,
                   current_balance, exit_status, calls>>
\* The end of a generator, after its loop: df = pd.DataFrame(data),
\* df.to_csv(...), the print of the completion line, and the return.  to_csv
\* raises OSError when ../../samples/ does not exist.
WriteCsv ==
    /\ pc = "loop"
    /\ ~(i < num_rows)
    /\ IF samples_dir
       THEN /\ files' = [files EXCEPT ![FileName(gen)] = CsvOf(data)]
            /\ writes' = Append(writes, gen)
            /\ console' = Append(console, GeneratedLine(gen, num_rows, data))
            /\ gen' = "none"
            /\ data' = <<>>
            /\ i' = 0
            /\ num_rows' = 0
            /\ IF script = "generate_all"
               THEN pc' = "try" /\ step' = step + 1
               ELSE pc' = "returned" /\ step' = step
            /\ exc' = exc
       ELSE /\ pc' = "raise"
            /\ exc' = "OSError"
            /\ UNCHANGED <<files, writes, console, gen, data, i, num_rows, step>>
    /\ UNCHANGED <<id_gen, ids, installed, samples_dir, script, arg,
                   current_balance, exit_status, calls>>

\* main(): the end of the try block.
MainSuccess ==
    /\ pc = "try"
    /\ step > Len(GeneratorOrder)
    /\ console' = console \o
           <<Line("====="),
             Line("Todos os arquivos CSV foram gerados com sucesso!"),
             Line("Arquivos salvos em: ../../samples/")>>
    /\ pc' = "done"
    /\ exit_status' = 0
    /\ UNCHANGED <<id_gen, ids, installed, samples_dir, files, script, arg, step,
                   gen, num_rows, i, data, current_balance, exc, calls, writes>>

\* print(f"Erro durante a geracao: {e}")
ErrorLine(e) == [msg |-> "Erro durante a geracao", detail |-> e, rows |-> 0]

HandleExceptionAndContinue ==
    /\ pc = "raise"
    /\ script = "generate_all"
    /\ console' = Append(console, ErrorLine(exc))
    /\ step' = step + 1
    /\ pc' = "try"
    /\ UNCHANGED <<id_gen, ids, installed, samples_dir, files, script, arg, gen,
                   num_rows, i, data, current_balance, exc, exit_status, calls,
                   writes>>
\* main(): the except clauses.  An exception raised in the try block is
\* reported and the process exits with 1.
HandleException ==
    /\ pc = "raise"
    /\ script = "generate_all"
    /\ console' =
           IF exc = "ImportError"
           THEN console \o
                    <<[msg |-> "Erro de importacao", detail |-> exc, rows |-> 0],
                      Line("Certifique-se de que todas as dependencias estao instaladas:"),
                      Line("pip install faker pandas numpy")>>
           ELSE Append(console, ErrorLine(exc))
    /\ exit_status' = 1
    /\ pc' = "exited"
    /\ UNCHANGED <<id_gen, ids, installed, samples_dir, files, script, arg, step,
                   gen, num_rows, i, data, current_balance, exc, calls, writes>>

\* A generator called directly: the exception leaves the function.
PropagateException ==
    /\ pc = "raise"
    /\ script # "generate_all"
    /\ pc' = "raised"
    /\ UNCHANGED <<id_gen, ids, installed, samples_dir, files, script, arg, step,
                   gen, num_rows, i, data, current_balance, exc, console,
                   exit_status, calls, writes>>

-----------------------------------------------------------------------------
(* The specification *)

\* The run of generate_all.py, or a caller's call of one generator.
Init ==
    /\ script \in {"generate_all"} \cup Generators
    /\ installed \in IF script = "generate_all" THEN SUBSET Libraries ELSE {Libraries}
    /\ arg \in IF script = "generate_all" THEN {DefaultNumRows}
               ELSE IF script = "ecommerce" THEN NumRowsArgs \cup ScenarioRows
               ELSE NumRowsArgs
    /\ samples_dir \in BOOLEAN
    /\ files \in IF samples_dir
                 THEN {[f \in FileNames |-> Absent], [f \in FileNames |-> Stale]}
                 ELSE {[f \in FileNames |-> Absent]}
    /\ pc = IF script = "generate_all" THEN "import" ELSE "call"
    /\ step = 0
    /\ gen = "none"
    /\ num_rows = 0
    /\ i = 0
    /\ data = <<>>
    /\ current_balance = 0
    /\ exc = "none"
    /\ console = <<>>
    /\ exit_status = -1
    /\ calls = <<>>
    /\ writes = <<>>
    /\ id_gen = "none"
    /\ ids = <<>>

Next ==
    \/ ImportGenerators
    \/ MainStart
    \/ CallNextGenerator
    \/ CallGenerator
    \/ EcommerceIteration
    \/ ControllershipIteration
    \/ HrIteration
    \/ LogisticsIteration
    \/ MarketingIteration
    \/ ProductionIteration
    \/ InventoryIteration
    \/ CustomersIteration
    \/ SuppliersIteration
    \/ CashflowIteration
    \/ WriteCsv
    \/ MainSuccess
    \/ HandleException
    \/ PropagateException

Spec == Init /\ [][Next]_vars

-----------------------------------------------------------------------------
(* The sequential identifiers as a function of the row index *)

\* The 1-based row indices at which the identifier is built: the first, and
\* those around a change of the number of digits.
IndexSamples == {1, 9, 10, 99999, 100000, 999999, 1000000}

InitIds ==
    /\ id_gen \in IdGenerators
    /\ ids = <<>>
    /\ script = "none"
    /\ installed = Libraries
    /\ arg = 0
    /\ samples_dir = TRUE
    /\ files = [f \in FileNames |-> Absent]
    /\ pc = "format"
    /\ step = 0
    /\ gen = "none"
    /\ num_rows = 0
    /\ i = 0
    /\ data = <<>>
    /\ current_balance = 0
    /\ exc = "none"
    /\ console = <<>>
    /\ exit_status = -1
    /\ calls = <<>>
    /\ writes = <<>>

\* The identifier of one more row of the domain id_gen.
FormatId ==
    /\ pc = "format"
    /\ \E n \in IndexSamples \ DOMAIN ids :
          ids' = [m \in DOMAIN ids \cup {n} |->
                     IF m = n THEN RowId(id_gen, n) ELSE ids[m]]
    /\ UNCHANGED <<id_gen, installed, samples_dir, files, script, arg, pc, step,
                   gen, num_rows, i, data, current_balance, exc, console,
                   exit_status, calls, writes>>

\* The runs of the program, and the identifiers built at the sampled indices.
InitWithIds == Init \/ InitIds

NextWithIds == Next \/ FormatId

SpecIds == InitWithIds /\ [][NextWithIds]_vars

-----------------------------------------------------------------------------
(* Properties *)

SuccessLine == Line("Todos os arquivos CSV foram gerados com sucesso!")
HintLine == Line("pip install faker pandas numpy")
Printed(line) == \E k \in 1..Len(console) : console[k] = line

\* C1: in the cashflow generator every row after the first has a
\* Saldo_Anterior equal to the Saldo_Apos of the row before it.
C1_PrefixConsistent ==
    gen = "cashflow" =>
        \A k \in 2..Len(data) :
            Get(data[k], "Saldo_Anterior") = Get(data[k - 1], "Saldo_Apos")

\* C1 witness: two cashflow rows, an inflow followed by an outflow.
C1_Witness ==
    /\ gen = "cashflow"
    /\ Len(data) >= 2
    /\ Get(data[1], "Tipo") = "Entrada"
    /\ Get(data[1], "Valor") > 0
    /\ Get(data[2], "Tipo") = "Saida"

\* The sum of the signed values of cashflow rows.
RECURSIVE SignedSum(_)
SignedSum(rows) ==
    IF rows = <<>> THEN 0
    ELSE LET last == rows[Len(rows)]
             v == Get(last, "Valor")
         IN  SignedSum(SubSeq(rows, 1, Len(rows) - 1))
                 + (IF Get(last, "Tipo") = "Entrada" THEN v ELSE -v)

\* C2: every cashflow row adds Valor to the balance it read when Tipo is
\* Entrada and subtracts it when Tipo is Saida, and the balance carried to the
\* next iteration is the new balance (the initial balance plus every signed
\* value so far).
C2_SignedDelta ==
    gen = "cashflow" =>
        /\ \A k \in 1..Len(data) :
               LET row == data[k]
               IN  /\ Get(row, "Tipo") = "Entrada" =>
                          Get(row, "Saldo_Apos") =
                              Get(row, "Saldo_Anterior") + Get(row, "Valor")
                   /\ Get(row, "Tipo") = "Saida" =>
                          Get(row, "Saldo_Apos") =
                              Get(row, "Saldo_Anterior") - Get(row, "Valor")
        /\ current_balance = 100000000 + SignedSum(data)
        /\ data # <<>> =>
               Round2(current_balance) = Get(data[Len(data)], "Saldo_Apos")

\* C2 witness: an outflow row with a positive value has been appended.
C2_Witness ==
    /\ gen = "cashflow"
    /\ Len(data) >= 1
    /\ Get(data[1], "Tipo") = "Saida"
    /\ Get(data[1], "Valor") > 0
    /\ current_balance < 100000000

\* C3 (as claimed): when generate_all.py runs with faker, pandas or numpy
\* missing, the process ends with status 1 after printing the hint
\* 'pip install faker pandas numpy'.
C3_MissingDependencyHint ==
    (/\ script = "generate_all"
     /\ ~(Libraries \subseteq installed)
     /\ pc \in {"exited", "done"}) =>
        /\ exit_status = 1
        /\ Printed(HintLine)

\* C4: when a generator raises in generate_all.main, the error line is printed
\* and the process exits with 1; no later generator is invoked and the success
\* line is not printed.
C4_FailureAborts ==
    (script = "generate_all" /\ exc \notin {"none", "ImportError"}) =>
        /\ pc \in {"raise", "exited"}
        /\ calls = SubSeq(GeneratorOrder, 1, step)
        /\ gen = GeneratorOrder[step]
        /\ ~Printed(SuccessLine)
        /\ pc = "exited" =>
               /\ exit_status = 1
               /\ console[Len(console)] = ErrorLine(exc)

\* C4 witness: the marketing generator (the fifth) raised and the process has
\* exited.
C4_Witness ==
    /\ script = "generate_all"
    /\ pc = "exited"
    /\ exc = "ZeroDivisionError"
    /\ gen = "marketing"
    /\ Len(writes) = 4

\* The order of the calls in generate_all.main.
ClaimedOrder ==
    <<"ecommerce", "controllership", "hr", "logistics", "marketing",
      "production", "inventory", "customers", "suppliers", "cashflow">>

\* C5: in a run of generate_all.main the generators are invoked in the fixed
\* order, each starting only after the one before has written its file; a run
\* without failure invokes each exactly once and prints the success line only
\* after the cashflow generator has written its file.
C5_FixedSequence ==
    script = "generate_all" =>
        /\ calls = SubSeq(ClaimedOrder, 1, Len(calls))
        /\ writes = SubSeq(calls, 1, Len(writes))
        /\ Len(calls) <= Len(writes) + 1
        /\ \A k \in 1..Len(writes) :
               /\ files[FileName(writes[k])].exists
               /\ files[FileName(writes[k])] # Stale
        /\ Printed(SuccessLine) <=> pc = "done"
        /\ pc = "done" =>
               /\ calls = ClaimedOrder
               /\ writes = ClaimedOrder
               /\ exit_status = 0
               /\ exc = "none"

\* C5 witness: a complete run over stale files.
C5_Witness ==
    /\ script = "generate_all"
    /\ pc = "done"
    /\ Printed(SuccessLine)
    /\ Len(writes) = 10

\* C6 (as claimed): the row count of every completion line equals the number
\* of data rows written to the file it names.
C6_ReportedRowsWritten ==
    \A k \in 1..Len(console) :
        console[k].msg = "Arquivo gerado" =>
            console[k].rows = files[console[k].detail].nrows

\* C7: in every e-commerce row Total is Quantidade * Preco_Unitario + Frete -
\* Desconto, rounded to 2 decimals, over the values stored in the row.
C7_TotalConsistent ==
    gen = "ecommerce" =>
        \A k \in 1..Len(data) :
            LET row == data[k]
            IN  Get(row, "Total") =
                    Round2(Get(row, "Quantidade") * Get(row, "Preco_Unitario")
                               + Get(row, "Frete") - Get(row, "Desconto"))

\* C7 witness: a row with a negative price, a negative freight, a discount
\* other than 0 and a quantity above 1, and a row with no discount.
C7_Witness ==
    /\ gen = "ecommerce"
    /\ \E k \in 1..Len(data) :
           /\ Get(data[k], "Preco_Unitario") < 0
           /\ Get(data[k], "Frete") < 0
           /\ Get(data[k], "Desconto") # 0
           /\ Get(data[k], "Quantidade") > 1
    /\ \E k \in 1..Len(data) : Get(data[k], "Desconto") = 0

\* The e-commerce run with num_rows = 10 has assembled all its rows.
ScenarioAssembled ==
    script = "ecommerce" /\ arg = 10 /\ gen = "ecommerce" /\ ~(i < num_rows)
\* The e-commerce run with num_rows = 10 has returned.
ScenarioReturned ==
    script = "ecommerce" /\ arg = 10 /\ pc = "returned"

\* C8 (as claimed): the e-commerce domain generated with row count 10 has 10
\* records and 19 header fields.
C8_TenRowsNineteenFields ==
    /\ ScenarioAssembled =>
           /\ Len(data) = 10
           /\ \A k \in 1..Len(data) : Len(Keys(data[k])) = 19
    /\ ScenarioReturned =>
           /\ files["vendas_ecommerce.csv"].nrows = 10
           /\ Len(files["vendas_ecommerce.csv"].header) = 19

\* C8 (amended): the e-commerce domain generated with row count 10 has 10
\* records and 20 header fields.
C8_TenRowsTwentyFields ==
    /\ ScenarioAssembled =>
           /\ Len(data) = 10
           /\ \A k \in 1..Len(data) :
                  /\ Len(Keys(data[k])) = 20
                  /\ Cardinality({Keys(data[k])[j] : j \in 1..20}) = 20
    /\ ScenarioReturned =>
           /\ files["vendas_ecommerce.csv"].nrows = 10
           /\ Len(files["vendas_ecommerce.csv"].header) = 20

\* C8 witness: the 10-row e-commerce run has written its file.
C8_Witness ==
    /\ ScenarioReturned
    /\ files["vendas_ecommerce.csv"].exists
    /\ writes = <<"ecommerce">>

\* C9 (as claimed): no division by zero is raised while a marketing or a
\* production row is assembled, and in every marketing row CTR, CPC, CPA and
\* ROI are 0 when Impressoes, Cliques, Conversoes and Investimento are 0.
C9_RatiosGuarded ==
    /\ exc # "ZeroDivisionError"
    /\ gen = "marketing" =>
           \A k \in 1..Len(data) :
               LET row == data[k]
               IN  /\ Get(row, "Impressoes") = 0 => Get(row, "CTR") = 0
                   /\ Get(row, "Cliques") = 0 => Get(row, "CPC") = 0
                   /\ Get(row, "Conversoes") = 0 => Get(row, "CPA") = 0
                   /\ Get(row, "Investimento") = 0 => Get(row, "ROI") = 0

\* 10^k
RECURSIVE Pow10(_)
Pow10(k) == IF k = 0 THEN 1 ELSE 10 * Pow10(k - 1)

\* The identifier ident is the domain's prefix followed by the decimal digits
\* of n behind a run of zeros.
PrefixZerosDigits(ident, g, n) ==
    LET p == Len(IdPrefix(g))
        d == Len(Digits(n))
    IN  /\ Len(ident) >= p + d
        /\ SubSeq(ident, 1, p) = IdPrefix(g)
        /\ SubSeq(ident, Len(ident) - d + 1, Len(ident)) = Digits(n)
        /\ \A j \in (p + 1)..(Len(ident) - d) : ident[j] = "0"

\* C10 (as claimed): the row at 0-based position i carries the identifier of
\* the 1-based index i + 1, and the identifier of an index n is the prefix and
\* n zero-padded to the domain's width; all identifiers have that one length
\* and no two are equal.
C10_FixedWidthIds ==
    /\ gen \in IdGenerators =>
           \A k \in 1..Len(data) : Get(data[k], IdKey(gen)) = RowId(gen, k)
    /\ \A n \in DOMAIN ids :
           /\ PrefixZerosDigits(ids[n], id_gen, n)
           /\ Len(ids[n]) = Len(IdPrefix(id_gen)) + IdWidth(id_gen)
           /\ \A m \in DOMAIN ids : m # n => ids[m] # ids[n]

\* C10 (amended): the row at 0-based position i carries the identifier of the
\* 1-based index i + 1, distinct from that of every other row; the identifier
\* of an index n is the prefix and n zero-padded to at least the domain's width: its length is the
\* prefix's plus the width while n has at most width digits (n < 10^width) and
\* the prefix's plus the number of digits of n beyond; no two rows share an
\* identifier.
C10_MinWidthIds ==
    /\ gen \in IdGenerators =>
           \A k \in 1..Len(data) :
               LET ident == Get(data[k], IdKey(gen))
               IN  /\ PrefixZerosDigits(ident, gen, k)
                   /\ Len(ident) = Len(IdPrefix(gen)) + IdWidth(gen)
                   /\ \A m \in 1..Len(data) :
                          m # k => Get(data[m], IdKey(gen)) # ident
    /\ \A n \in DOMAIN ids :
           /\ PrefixZerosDigits(ids[n], id_gen, n)
           /\ n < Pow10(IdWidth(id_gen)) =>
                  Len(ids[n]) = Len(IdPrefix(id_gen)) + IdWidth(id_gen)
           /\ n >= Pow10(IdWidth(id_gen)) =>
                  Len(ids[n]) = Len(IdPrefix(id_gen)) + Len(Digits(n))
           /\ \A m \in DOMAIN ids : m # n => ids[m] # ids[n]

\* C10 witness: identifiers built for an index of one digit and for an index
\* with more digits than the width.
C10_Witness ==
    /\ 1 \in DOMAIN ids
    /\ \E n \in DOMAIN ids : n >= Pow10(IdWidth(id_gen))

\* The field names of each domain, in the order the row literal of its
\* generator lists them.
DomainFields(g) ==
    CASE g = "ecommerce" ->
             <<"ID_Pedido", "Data_Pedido", "Cliente_ID", "Produto", "Quantidade",
               "Preco_Unitario", "Total", "Status", "Metodo_Pagamento", "Frete",
               "Desconto", "Canal_Venda", "Cidade", "Estado", "Avaliacao",
               "Data_Entrega", "Motivo_Cancelamento", "Valor_Devolvido",
               "Categoria_Produto", "SKU">>
      [] g = "controllership" ->
             <<"Data_Lancamento", "Conta_Debito", "Conta_Credito", "Valor",
               "Historico", "Tipo_Lancamento", "Centro_Custo", "Filial",
               "Documento", "Fornecedor_Cliente", "Moeda", "Taxa_Cambio",
               "Competencia", "Usuario", "Aprovado", "Observacoes", "Categoria",
               "Subcategoria">>
      [] g = "hr" ->
             <<"ID_Funcionario", "Nome", "CPF", "Data_Admissao", "Cargo",
               "Salario", "Departamento", "Status", "Data_Demissao", "Idade",
               "Genero", "Escolaridade", "Estado_Civil", "Dependentes",
               "Horas_Extras", "Faltas", "Avaliacao", "Beneficios", "Cidade",
               "Estado">>
      [] g = "logistics" ->
             <<"ID_Entrega", "Pedido_ID", "Transportadora", "Data_Saida",
               "Data_Prevista", "Data_Entrega", "Status", "Peso_Kg", "Volume_M3",
               "Valor_Frete", "Destinatario", "Endereco", "Cidade", "Estado",
               "CEP", "Rastreamento", "Motivo_Atraso", "Tentativas_Entrega",
               "Responsavel">>
      [] g = "marketing" ->
             <<"ID_Campanha", "Nome_Campanha", "Data_Inicio", "Data_Fim",
               "Canal", "Investimento", "Impressoes", "Cliques", "Conversoes",
               "CTR", "CPC", "CPA", "ROI", "Publico_Alvo", "Segmento", "Status",
               "Responsavel", "Objetivo", "Metricas_Adicionais">>
      [] g = "production" ->
             <<"ID_Ordem", "Produto", "Quantidade_Planejada",
               "Quantidade_Produzida", "Data_Inicio", "Data_Fim", "Maquina",
               "Operador", "Tempo_Producao_Min", "Eficiencia", "Defeitos",
               "Custo_Materia_Prima", "Custo_Mao_Obra", "Status",
               "Linha_Producao", "Turno", "Qualidade", "Observacoes">>
      [] g = "inventory" ->
             <<"SKU", "Nome_Produto", "Categoria", "Fornecedor",
               "Quantidade_Estoque", "Valor_Unitario", "Valor_Total",
               "Localizacao", "Data_Ultima_Movimentacao", "Tipo_Movimentacao",
               "Quantidade_Movimentada", "Saldo_Apos_Movimentacao", "Motivo",
               "Responsavel", "Data_Vencimento", "Lote", "Status">>
      [] g = "customers" ->
             <<"ID_Cliente", "Nome", "CPF_CNPJ", "Email", "Telefone",
               "Data_Cadastro", "Data_Ultima_Compra", "Valor_Total_Compras",
               "Numero_Pedidos", "Cidade", "Estado", "CEP", "Idade", "Genero",
               "Renda_Estimada", "Score_Credito", "Status", "Preferencias",
               "Canal_Aquisicao">>
      [] g = "suppliers" ->
             <<"ID_Fornecedor", "Nome_Empresa", "CNPJ", "Contato", "Email",
               "Telefone", "Categoria", "Prazo_Pagamento", "Valor_Total_Compras",
               "Ultima_Compra", "Status", "Avaliacao", "Condicoes_Pagamento",
               "Desconto_Medio", "Produtos_Fornecidos", "Cidade", "Estado",
               "Data_Cadastro">>
      [] g = "cashflow" ->
             <<"Data", "Tipo", "Descricao", "Valor", "Categoria", "Subcategoria",
               "Conta", "Saldo_Anterior", "Saldo_Apos", "Responsavel",
               "Comprovante", "Centro_Custo", "Projeto", "Moeda", "Taxa_Cambio",
               "Previsao_Realizado", "Observacoes">>

\* The row count a generator was asked for: the orchestrator calls every
\* generator without an argument, a direct call passes its own.
RequestedRows == IF script = "generate_all" THEN DefaultNumRows ELSE arg

\* The generators that wrote their file in this run.
Written == {writes[k] : k \in 1..Len(writes)}

\* C11: for every generator and every row count N >= 0 the produced file is
\* one header row followed by exactly N data rows, the header lists the
\* domain's field names in the order the keys were inserted into the row, and
\* every row carries the same keys (optional fields as null, never omitted).
C11_HeaderAndRows ==
    /\ gen \in Generators =>
           \A k \in 1..Len(data) : Keys(data[k]) = DomainFields(gen)
    /\ \A g \in Written :
           RequestedRows >= 0 =>
               files[FileName(g)] =
                   [exists |-> TRUE, header |-> DomainFields(g),
                    nrows |-> RequestedRows]

\* C12: a generator writes its file only after all num_rows rows have been
\* assembled.  A step changes a file only as the write of the running
\* generator at the end of its loop, and the file then holds every assembled
\* row; a step that raises, or follows a raise, changes no file, so the file
\* of the failed generator is as it was before the call; every file written in
\* the run stays in place with no fewer rows than the full row count.
C12_WriteAfterAssembly ==
    [][/\ \A g \in Generators :
              files'[FileName(g)] # files[FileName(g)] =>
                  /\ g = gen
                  /\ pc = "loop"
                  /\ exc' = "none"
                  /\ Len(data) >= num_rows
                  /\ files'[FileName(g)].exists
                  /\ files'[FileName(g)].nrows = Len(data)
       /\ exc' # "none" =>
              /\ files' = files
              /\ gen' \notin Written'
       /\ \A g \in Written' :
              /\ files'[FileName(g)].exists
              /\ files'[FileName(g)].nrows >= RequestedRows]_vars

\* The orchestrator's marketing generator failed on its second row: the row
\* assembled before it was not written, the stale marketing file is still
\* there, and the four files written before it are in place.
C12_Witness ==
    /\ script = "generate_all"
    /\ pc = "exited"
    /\ gen = "marketing"
    /\ exc = "ZeroDivisionError"
    /\ Len(data) >= 1
    /\ files[FileName("marketing")] = Stale
    /\ Written = {"ecommerce", "controllership", "hr", "logistics"}
    /\ \A g \in Written : files[FileName(g)] # Stale

C14_PurchasesConsistent ==
    gen = "customers" =>
        \A k \in 1..Len(data) :
            LET last_purchase == Get(data[k], "Data_Ultima_Compra")
                total_purchases == Get(data[k], "Valor_Total_Compras")
                num_orders == Get(data[k], "Numero_Pedidos")
            IN  /\ last_purchase = None =>
                       total_purchases = 0 /\ num_orders = 0
                /\ num_orders >= 1 <=> total_purchases > 0
                /\ num_orders >= 1 => num_orders <= 50

\* Two customers rows: one that never purchased, with both fields 0, and one
\* with a last purchase, a positive total and at least one order.
C14_Witness ==
    /\ gen = "customers"
    /\ \E k \in 1..Len(data) :
           /\ Get(data[k], "Data_Ultima_Compra") = None
           /\ Get(data[k], "Valor_Total_Compras") = 0
           /\ Get(data[k], "Numero_Pedidos") = 0
    /\ \E k \in 1..Len(data) :
           /\ Get(data[k], "Data_Ultima_Compra") # None
           /\ Get(data[k], "Valor_Total_Compras") > 0
           /\ Get(data[k], "Numero_Pedidos") >= 1

=============================================================================
